---- MODULE Spec2Model ----
(***************************************************************************)
(* Plataforma 8D (src/src/App.jsx): a React front-end over a Firestore     *)
(* collection of 8D reports.  The model covers the App component (view,    *)
(* report list, active report and their two live subscriptions), the       *)
(* Dashboard (delete confirmation modal), the Workspace (discipline        *)
(* navigation, handleUpdate / handleDeepUpdate) and the eight discipline   *)
(* editors, together with the document store they write to.                *)
(***************************************************************************)
EXTENDS Integers, Sequences, FiniteSets, TLC

(***************************************************************************)
(* Bounds of the model.                                                    *)
(***************************************************************************)
\* number of reports that are ever created (addDoc calls)
MaxReports == 1
\* number of writes of this client the store has not yet answered
MaxQueue == 1
\* longest roster / action list / five_whys list / cause list
MaxList == 2
\* number of editor operations, navigation clicks and foreign writes in a run
MaxEdits == 2
\* number of disciplines the navigation clicks of a run choose from
MaxNav == 2

\* strings a user types into an input
Typed == {"x"}

(***************************************************************************)
(* Values.                                                                 *)
(***************************************************************************)
\* activeReportId / reportToDelete: null
NoId == 0
ReportIds == 1..MaxReports
\* the id of a report that was created in an earlier session
EarlierId == MaxReports + 1
AllIds == ReportIds \cup {EarlierId}
\* userId: null
NoUser == ""
\* the identity the provider hands out (user.uid)
Uid == "anon-user-0001"
\* userId.substring(0, 6)
Substring6(u) == IF u = "anon-user-0001" THEN "anon-u" ELSE u
\* new Date().toLocaleDateString()
Today == "30/10/2026"

Disciplines == <<"D1", "D2", "D3", "D4", "D5", "D6", "D7", "D8">>
DisciplineIds == {Disciplines[i] : i \in 1..Len(Disciplines)}
D2Keys == <<"what", "where", "when", "who", "why", "how", "how_many">>
FishboneCategories ==
    <<"Manpower", "Machine", "Method", "Material", "Measurement", "Environment">>
\* the disciplines a navigation click of the model selects
NavTargets == {Disciplines[i] : i \in 1..MaxNav}
CategorySet == {FishboneCategories[i] : i \in 1..Len(FishboneCategories)}

\* A JavaScript string stored where the schema has a mapping.  TLA+ values
\* are typed, so a field that can hold a mapping or a string holds either
\* the mapping or this one-key record.
JsString(s) == [string |-> s]
IsJsString(v) == DOMAIN v = {"string"}

\* activeReport: null
NoReport == [id |-> NoId]

EmptyAction == [action |-> "", responsible |-> "", date |-> "", verified |-> FALSE]

SkeletonWithoutWhy(uid) ==
    [ title |-> "Nuevo Informe 8D - " \o Today,
      createdBy |-> uid,
      createdAt |-> "serverTimestamp",
      currentDiscipline |-> "D1",
      d1_team |-> << [name |-> "Usuario " \o Substring6(uid), role |-> "Líder"] >>,
      d2_problem |-> [what |-> "", where |-> "", when |-> "", who |-> "",
                      why |-> "", how |-> "", how_many |-> ""],
      d3_containment |-> << EmptyAction >>,
      d4_root_cause |->
          [ five_whys |-> <<>>,
            fishbone |-> [Manpower |-> <<>>, Machine |-> <<>>, Method |-> <<>>,
                          Material |-> <<>>, Measurement |-> <<>>,
                          Environment |-> <<>>] ],
      d5_corrective_actions |-> << EmptyAction >>,
      d6_implementation |-> [summary |-> "", validation_results |-> ""],
      d7_prevention |-> [updated_docs |-> "", new_standards |-> ""],
      d8_recognition |-> [summary |-> "", celebration_date |-> ""] ]

\* The document handleCreateNewReport passes to addDoc.
Skeleton(uid) ==
    [ title |-> "Nuevo Informe 8D - " \o Today,
      createdBy |-> uid,
      createdAt |-> "serverTimestamp",
      currentDiscipline |-> "D1",
      d1_team |-> << [name |-> "Usuario " \o Substring6(uid), role |-> "Líder"] >>,
      d2_problem |-> [what |-> "", where |-> "", when |-> "", who |-> "",
                      why |-> "", how |-> "", how_many |-> ""],
      d3_containment |-> << EmptyAction >>,
      d4_root_cause |->
          [ five_whys |-> << "" >>,
            fishbone |-> [Manpower |-> <<>>, Machine |-> <<>>, Method |-> <<>>,
                          Material |-> <<>>, Measurement |-> <<>>,
                          Environment |-> <<>>] ],
      d5_corrective_actions |-> << EmptyAction >>,
      d6_implementation |-> [summary |-> "", validation_results |-> ""],
      d7_prevention |-> [updated_docs |-> "", new_standards |-> ""],
      d8_recognition |-> [summary |-> "", celebration_date |-> ""] ]

\* { id: doc.id, ...doc.data() }
WithId(id, data) == [id |-> id] @@ data

(***************************************************************************)
(* updateDoc(ref, { [path]: value }): a field path is a sequence of        *)
(* segments ('d2_problem.where' is <<"d2_problem", "where">>).  The store   *)
(* replaces the addressed field and nothing else.                          *)
(***************************************************************************)
UpdateDocOverwriting(data, path, value) ==
    IF Len(path) = 1
    THEN (path[1] :> value) @@ data
    ELSE (path[1] :> (path[2] :> value)) @@ data

updateDoc(data, path, value) ==
    IF Len(path) = 1
    THEN (path[1] :> value) @@ data
    ELSE (path[1] :> ((path[2] :> value) @@ data[path[1]])) @@ data

\* data.filter((_, i) => i !== index), with index counted from 1
RECURSIVE FilterOut(_, _)
FilterOut(list, index) ==
    IF list = <<>> THEN <<>>
    ELSE IF index = 1 THEN Tail(list)
    ELSE <<Head(list)>> \o FilterOut(Tail(list), index - 1)

(***************************************************************************)
(* State.                                                                  *)
(***************************************************************************)
VARIABLES
    \* --- App (useState, lines 31-40) ---
    db,              \* TRUE when the Firestore handle is set (db !== null)
    userId,          \* NoUser or the uid
    isAuthReady,
    view,            \* "dashboard" or "workspace"
    reports,         \* the list the Dashboard shows: report id -> {id, ...data}
    activeReport,    \* NoReport or {id, ...data}
    activeReportId,  \* NoId or a report id
    isLoading,
    \* --- position of the initialization effect (lines 45-66) ---
    authPhase,
    \* --- Dashboard (lines 238-239) ---
    modalOpen,
    reportToDelete,
    \* --- Workspace (line 371) ---
    activeDiscipline,
    \* --- outcome the caller of handleUpdate / handleDeepUpdate observes ---
    updateResult,
    \* --- Firestore client of this browser ---
    listSub,         \* "none", "live" or "error": the collection listener
    listDirty,       \* a list snapshot is waiting to be delivered
    docSubId,        \* the report the document listener is attached to
    docSubStatus,    \* "none", "live" or "error"
    docDirty,        \* a document snapshot is waiting to be delivered
    writeQueue,      \* writes issued by this client, not yet answered
    nextId,          \* the next id addDoc generates
    \* --- the document store (shared with other clients) ---
    store,           \* report id -> data
    \* --- reports whose deleteDoc, awaited at line 154, has returned ---
    deleted,
    \* --- budget of editor / navigation / foreign / export operations ---
    edits,
    \* --- PDF export of the Workspace (lines 11-26, 372, 400-414) ---
    isGeneratingPdf,
    loadedScripts,   \* the module-level Set of line 11
    scriptTags,      \* <<attempt, src>>: script elements still loading
    pending,         \* attempt -> the scripts its Promise.all still awaits
    exportReport,    \* attempt -> the report object handleGeneratePdf closed over
    exportLog,       \* "none", "saved", or "error" when line 408 logged
    saved,           \* the files doc.save was invoked for, in order
    \* --- the report as the editors of the Workspace were last rendered ---
    rendered,
    \* --- another client with the same report open in its Workspace ---
    foreignReport,   \* the report object of its activeReport state
    foreignRendered, \* the report as its editors were last rendered
    foreignQueue     \* its writes the store has not answered

appVars == <<db, userId, isAuthReady, view, reports, activeReport,
             activeReportId, isLoading, authPhase>>
dashVars == <<modalOpen, reportToDelete>>
wsVars == <<activeDiscipline, updateResult>>
subVars == <<listSub, listDirty, docSubId, docSubStatus, docDirty>>
storeVars == <<writeQueue, nextId, store, deleted>>
exportVars == <<loadedScripts, scriptTags, pending, exportLog, saved>>
pdfVars == <<isGeneratingPdf, exportReport, exportVars>>
foreignVars == <<foreignReport, foreignRendered, foreignQueue>>
vars == <<appVars, dashVars, wsVars, subVars, storeVars, edits, pdfVars,
          rendered, foreignVars>>

(***************************************************************************)
(* What the listeners of this client see: the store's documents with the   *)
(* client's own unanswered writes applied on top, in issue order.          *)
(***************************************************************************)
AddOp(id, data) == [id |-> id, op |-> "add", path |-> <<>>, value |-> data]
UpdateOp(id, path, value) == [id |-> id, op |-> "update", path |-> path, value |-> value]
DeleteOp(id) == [id |-> id, op |-> "delete", path |-> <<>>, value |-> ""]

\* a document is <<data>>, a missing document is <<>>
ServerDoc(s, id) == IF id \in DOMAIN s THEN << s[id] >> ELSE <<>>

ApplyOp(base, m) ==
    CASE m.op = "add" -> << m.value >>
      [] m.op = "delete" -> <<>>
      [] m.op = "update" ->
            IF base = <<>> THEN <<>> ELSE << updateDoc(base[1], m.path, m.value) >>

RECURSIVE Overlay(_, _, _)
Overlay(id, base, q) ==
    IF q = <<>> THEN base
    ELSE IF Head(q).id = id THEN Overlay(id, ApplyOp(base, Head(q)), Tail(q))
    ELSE Overlay(id, base, Tail(q))

\* docSnapshot of the document listener
LocalDoc(id, s, q) == Overlay(id, ServerDoc(s, id), q)

\* querySnapshot of the collection listener, as the reportsData it becomes
LocalList(s, q) ==
    [id \in {i \in DOMAIN s \cup {q[k].id : k \in DOMAIN q} :
                 LocalDoc(i, s, q) # <<>>} |->
        WithId(id, LocalDoc(id, s, q)[1])]

(***************************************************************************)
(* The report objects the running handleGeneratePdf calls hold.  The       *)
(* handler closes over the report prop of the render it was created in     *)
(* (line 406), which is the object of the activeReport state (line 201).   *)
(* While the state holds that object (shared), the editors that write into *)
(* it in place change what the handler will print; once the state holds    *)
(* another object, or none, the handler keeps the old one (report).        *)
(***************************************************************************)
Shared == [shared |-> TRUE, report |-> NoReport]
Kept(report) == [shared |-> FALSE, report |-> report]

\* setActiveReport with a new object or null (lines 96, 102): the running
\* handlers keep the object the state held
Detached ==
    [a \in DOMAIN exportReport |->
        IF exportReport[a].shared THEN Kept(activeReport) ELSE exportReport[a]]

(***************************************************************************)
(* The effects React runs after a handler changed the state.  v2 and id2   *)
(* are the view and activeReportId the handler set, ar2 the activeReport,  *)
(* s2 and q2 the store and the write queue after the step.                 *)
(***************************************************************************)
\* the active-report effect (lines 93-112): its cleanup, then its body
ActiveReportEffect(v2, id2, ar2, s2, q2) ==
    IF v2 = view /\ id2 = activeReportId
    THEN /\ UNCHANGED <<docSubId, docSubStatus, exportReport>>
         /\ activeReport' = ar2
         /\ docDirty' = ( /\ docSubStatus = "live"
                          /\ \/ docDirty
                             \/ LocalDoc(docSubId, s2, q2)
                                    # LocalDoc(docSubId, store, writeQueue) )
    ELSE IF v2 # "workspace" \/ ~db \/ id2 = NoId
    THEN /\ docSubId' = NoId
         /\ docSubStatus' = "none"
         /\ docDirty' = FALSE
         /\ activeReport' = NoReport
         /\ exportReport' = Detached
    ELSE /\ docSubId' = id2
         /\ docSubStatus' = "live"
         /\ docDirty' = TRUE
         /\ activeReport' = ar2
         /\ UNCHANGED exportReport

\* the collection listener hears of a changed list
ListNotify(s2, q2) ==
    listDirty' = ( /\ listSub = "live"
                   /\ \/ listDirty
                      \/ LocalList(s2, q2) # LocalList(store, writeQueue) )

\* Dashboard and Workspace are mounted and unmounted with the view; a
\* mounted component starts from its useState initial values.
Remount(v2) ==
    IF v2 = view
    THEN UNCHANGED <<modalOpen, reportToDelete, activeDiscipline, isGeneratingPdf>>
    ELSE /\ modalOpen' = FALSE
         /\ reportToDelete' = NoId
         /\ activeDiscipline' = "D1"
         /\ isGeneratingPdf' = FALSE

\* a setState that changed the state renders the App again, and with it the
\* Workspace and its editor, from the report the state holds then
Render == rendered' = activeReport'

\* everything that follows a handler which did not touch the store
AfterHandler(v2, id2, ar2) ==
    /\ view' = v2
    /\ activeReportId' = id2
    /\ ActiveReportEffect(v2, id2, ar2, store, writeQueue)
    /\ Remount(v2)
    /\ Render

\* the export at rest: line 372, an empty loadedScripts (line 11), no script
\* element loading, no handleGeneratePdf running, nothing saved
PdfIdle ==
    /\ isGeneratingPdf = FALSE
    /\ loadedScripts = {}
    /\ scriptTags = {}
    /\ pending = <<>>
    /\ exportReport = <<>>
    /\ exportLog = "none"
    /\ saved = <<>>

(***************************************************************************)
(* Initial state: the values of useState before any effect has run.        *)
(***************************************************************************)
Init ==
    /\ db = FALSE
    /\ userId = NoUser
    /\ isAuthReady = FALSE
    /\ view = "dashboard"
    /\ reports = <<>>
    /\ activeReport = NoReport
    /\ activeReportId = NoId
    /\ isLoading = TRUE
    /\ authPhase = "start"
    /\ modalOpen = FALSE
    /\ reportToDelete = NoId
    /\ activeDiscipline = "D1"
    /\ updateResult = "none"
    /\ listSub = "none"
    /\ listDirty = FALSE
    /\ docSubId = NoId
    /\ docSubStatus = "none"
    /\ docDirty = FALSE
    /\ writeQueue = <<>>
    /\ nextId = 1
    /\ store = <<>>
    /\ deleted = {}
    /\ edits = 0
    /\ PdfIdle
    /\ foreignReport = NoReport
    /\ foreignRendered = NoReport
    /\ foreignQueue = <<>>
    /\ rendered = activeReport


(***************************************************************************)
(* Firebase initialization and authentication (lines 45-66).               *)
(***************************************************************************)
\* the report-list effect (lines 69-89) runs when isAuthReady and db are
\* both set for the first time
ListEffect(ready2, db2) ==
    IF ready2 /\ db2 /\ ~(isAuthReady /\ db)
    THEN /\ isLoading' = TRUE
         /\ listSub' = "live"
         /\ listDirty' = TRUE
    ELSE UNCHANGED <<isLoading, listSub, listDirty>>

\* lines 47-53: the try block runs to its end
InitializeFirebase ==
    /\ authPhase = "start"
    /\ authPhase' = "listening"
    /\ db' = TRUE
    /\ ListEffect(isAuthReady, TRUE)
    /\ UNCHANGED <<userId, isAuthReady, view, reports, activeReport, activeReportId,
                   dashVars, wsVars, docSubId, docSubStatus, docDirty, storeVars, edits,
                   pdfVars, foreignVars>>
    /\ Render

\* lines 62-65: initializeApp / getAuth / getFirestore throws
InitializeFirebaseThrows ==
    /\ authPhase = "start"
    /\ authPhase' = "failed"
    /\ isAuthReady' = TRUE
    /\ ListEffect(TRUE, db)
    /\ UNCHANGED <<db, userId, view, reports, activeReport, activeReportId,
                   dashVars, wsVars, docSubId, docSubStatus, docDirty, storeVars, edits,
                   pdfVars, foreignVars>>
    /\ Render

\* lines 54-55, 59: the listener is called with a user (an existing session,
\* or the session signInAnonymously has just opened)
AuthStateChangedUser ==
    /\ authPhase \in {"listening", "signingIn", "signedIn"}
    /\ authPhase' = "ready"
    /\ userId' = Uid
    /\ isAuthReady' = TRUE
    /\ ListEffect(TRUE, db)
    /\ UNCHANGED <<db, view, reports, activeReport, activeReportId,
                   dashVars, wsVars, docSubId, docSubStatus, docDirty, storeVars, edits,
                   pdfVars, foreignVars>>
    /\ Render

\* lines 56-57: the listener is called without a user and awaits the sign-in
AuthStateChangedNoUser ==
    /\ authPhase = "listening"
    /\ authPhase' = "signingIn"
    /\ UNCHANGED <<db, userId, isAuthReady, view, reports, activeReport,
                   activeReportId, isLoading, dashVars, wsVars, subVars,
                   storeVars, edits,
                   pdfVars, foreignVars>>
    /\ UNCHANGED rendered

\* line 59 after the await at line 57 returned
SignInResolves ==
    /\ authPhase = "signingIn"
    /\ authPhase' = "signedIn"
    /\ isAuthReady' = TRUE
    /\ ListEffect(TRUE, db)
    /\ UNCHANGED <<db, userId, view, reports, activeReport, activeReportId,
                   dashVars, wsVars, docSubId, docSubStatus, docDirty, storeVars, edits,
                   pdfVars, foreignVars>>
    /\ Render

\* the await at line 57 throws: the callback ends there
SignInRejects ==
    /\ authPhase = "signingIn"
    /\ authPhase' = "signInFailed"
    /\ UNCHANGED <<db, userId, isAuthReady, view, reports, activeReport,
                   activeReportId, isLoading, dashVars, wsVars, subVars,
                   storeVars, edits,
                   pdfVars, foreignVars>>
    /\ UNCHANGED rendered

(***************************************************************************)
(* Dashboard.  It is rendered once isAuthReady holds (line 166) and the    *)
(* view is 'dashboard' (line 189).                                         *)
(***************************************************************************)
OnDashboard == isAuthReady /\ view = "dashboard"
\* the report cards are rendered (lines 273-293)
CardShown(id) == OnDashboard /\ ~isLoading /\ id \in DOMAIN reports

HandleCreateUnguarded ==
    /\ OnDashboard
    /\ nextId <= MaxReports
    /\ Len(writeQueue) < MaxQueue
    /\ writeQueue' = Append(writeQueue, AddOp(nextId, Skeleton(userId)))
    /\ nextId' = nextId + 1
    /\ ListNotify(store, writeQueue')
    /\ UNCHANGED <<appVars, dashVars, wsVars, listSub, docSubId,
                   docSubStatus, docDirty, store, deleted, edits,
                   pdfVars, foreignVars>>
    /\ UNCHANGED rendered

\* lines 114-121: the guard and the call of addDoc; the rest of the handler
\* runs when the store answers (StoreAccepts / StoreRejects)
handleCreateNewReport ==
    /\ OnDashboard
    /\ IF ~db \/ userId = NoUser
       THEN UNCHANGED vars
       ELSE /\ nextId <= MaxReports
            /\ Len(writeQueue) < MaxQueue
            /\ writeQueue' = Append(writeQueue, AddOp(nextId, Skeleton(userId)))
            /\ nextId' = nextId + 1
            /\ ListNotify(store, writeQueue')
            /\ UNCHANGED <<appVars, dashVars, wsVars, listSub, docSubId,
                           docSubStatus, docDirty, store, deleted, edits,
                           pdfVars, rendered, foreignVars>>

\* lines 145-148; the card is covered by the modal while that is open
handleSelectReport(id) ==
    /\ CardShown(id)
    /\ ~modalOpen
    /\ AfterHandler("workspace", id, activeReport)
    /\ UNCHANGED <<db, userId, isAuthReady, reports, isLoading, authPhase,
                   updateResult, listSub, listDirty, storeVars, edits,
                   exportVars, foreignVars>>

OpenDeleteModalBubbling(id) ==
    /\ CardShown(id)
    /\ AfterHandler("workspace", id, activeReport)
    /\ UNCHANGED <<db, userId, isAuthReady, reports, isLoading, authPhase,
                   updateResult, listSub, listDirty, storeVars, edits,
                   exportVars, foreignVars>>

\* lines 241-245; stopPropagation keeps the click from the card
openDeleteModal(id) ==
    /\ CardShown(id)
    /\ reportToDelete' = id
    /\ modalOpen' = TRUE
    /\ UNCHANGED <<appVars, wsVars, subVars, storeVars, edits,
                   pdfVars, foreignVars>>
    /\ UNCHANGED rendered

\* line 259: onClose
closeModal ==
    /\ OnDashboard
    /\ modalOpen
    /\ modalOpen' = FALSE
    /\ UNCHANGED <<appVars, reportToDelete, wsVars, subVars, storeVars, edits,
                   pdfVars, foreignVars>>
    /\ UNCHANGED rendered

\* lines 150-154: the guard and the call of deleteDoc
handleDeleteReport(id) ==
    IF ~db
    THEN UNCHANGED <<writeQueue, listDirty>>
    ELSE /\ Len(writeQueue) < MaxQueue
         /\ writeQueue' = Append(writeQueue, DeleteOp(id))
         /\ ListNotify(store, writeQueue')

ConfirmDeleteSelecting ==
    /\ OnDashboard
    /\ modalOpen
    /\ reportToDelete # NoId
    /\ handleDeleteReport(reportToDelete)
    /\ view' = "workspace"
    /\ activeReportId' = reportToDelete
    /\ ActiveReportEffect("workspace", reportToDelete, activeReport, store, writeQueue')
    /\ Remount("workspace")
    /\ UNCHANGED <<db, userId, isAuthReady, reports, isLoading, authPhase,
                   updateResult, listSub, nextId, store, deleted, edits,
                   exportVars, foreignVars>>
    /\ Render

\* lines 247-253
confirmDelete ==
    /\ OnDashboard
    /\ modalOpen
    /\ IF reportToDelete # NoId
       THEN handleDeleteReport(reportToDelete)
       ELSE UNCHANGED <<writeQueue, listDirty>>
    /\ modalOpen' = FALSE
    /\ reportToDelete' = NoId
    /\ UNCHANGED <<appVars, wsVars, listSub, docSubId, docSubStatus, docDirty,
                   nextId, store, deleted, edits,
                   pdfVars, foreignVars>>
    /\ UNCHANGED rendered

(***************************************************************************)
(* Workspace.  Its header and editors are rendered once the report is      *)
(* loaded (lines 416-422).                                                 *)
(***************************************************************************)
InWorkspace == isAuthReady /\ view = "workspace" /\ activeReport # NoReport

\* lines 160-164
handleGoToDashboard ==
    /\ InWorkspace
    /\ AfterHandler("dashboard", NoId, NoReport)
    /\ UNCHANGED <<db, userId, isAuthReady, reports, isLoading, authPhase,
                   updateResult, listSub, listDirty, storeVars, edits,
                   exportVars, foreignVars>>

\* lines 380-388 and 390-398 (the two functions have the same body): the
\* guard and the call of updateDoc.  updateResult is what the returned
\* promise has settled to: "pending" until the store answers, "undefined"
\* once it is fulfilled (an async function that returns nothing, or whose
\* catch block swallowed the error, fulfils with undefined).
\* The body as a function of the props db and reportId of the render the
\* callback was made in (the dependencies of useCallback, lines 388, 398):
\* the writes the call issues and what its promise has settled to when the
\* call returns.
Resolve(hasDb, reportId, path, value) ==
    IF ~hasDb \/ reportId = NoId
    THEN [writes |-> <<>>, result |-> "undefined"]
    ELSE [writes |-> << UpdateOp(reportId, path, value) >>, result |-> "pending"]

handleUpdate(path, value) ==
    LET call == Resolve(db, activeReportId, path, value)
    IN /\ writeQueue' = writeQueue \o call.writes
       /\ updateResult' = call.result

handleDeepUpdate(path, value) == handleUpdate(path, value)

\* what follows a write issued from the Workspace
AfterWrite(ar2) ==
    /\ ActiveReportEffect(view, activeReportId, ar2, store, writeQueue')
    /\ ListNotify(store, writeQueue')
    /\ edits' = edits + 1
    /\ UNCHANGED <<isGeneratingPdf, exportVars, foreignVars>>
    /\ UNCHANGED <<db, userId, isAuthReady, view, reports, activeReportId,
                   isLoading, authPhase, dashVars, listSub, nextId, store, deleted>>

HandleSelectNotPersisting(d) ==
    /\ InWorkspace
    /\ edits < MaxEdits
    /\ activeDiscipline' = d
    /\ edits' = edits + 1
    /\ UNCHANGED <<pdfVars, foreignVars>>
    /\ UNCHANGED <<appVars, dashVars, updateResult, subVars, storeVars>>
    /\ rendered' = IF d # activeDiscipline THEN activeReport' ELSE rendered

\* DisciplineNav.handleSelect (lines 489-492) with the wiring of line 467
handleSelect(d) ==
    /\ InWorkspace
    /\ edits < MaxEdits
    /\ Len(writeQueue) < MaxQueue
    /\ activeDiscipline' = d
    /\ handleUpdate(<<"currentDiscipline">>, d)
    /\ AfterWrite(activeReport)
    /\ rendered' = IF d # activeDiscipline THEN activeReport' ELSE rendered


(***************************************************************************)
(* The store answers the oldest unanswered write of this client.           *)
(***************************************************************************)
\* the store after it applied write m
Applied(s, m) ==
    CASE m.op = "add" -> (m.id :> m.value) @@ s
      [] m.op = "delete" -> [i \in DOMAIN s \ {m.id} |-> s[i]]
      [] m.op = "update" -> [s EXCEPT ![m.id] = updateDoc(@, m.path, m.value)]

\* addDoc / updateDoc / deleteDoc resolves.  For addDoc the handler goes on
\* with lines 138-139; for updateDoc the promise of handleUpdate fulfils.
StoreAccepts ==
    /\ writeQueue # <<>>
    /\ LET m == Head(writeQueue)
           s2 == Applied(store, m)
           q2 == Tail(writeQueue)
           v2 == IF m.op = "add" THEN "workspace" ELSE view
           id2 == IF m.op = "add" THEN m.id ELSE activeReportId
       IN /\ m.op = "update" => m.id \in DOMAIN store
          /\ store' = s2
          /\ writeQueue' = q2
          /\ view' = v2
          /\ activeReportId' = id2
          /\ ActiveReportEffect(v2, id2, activeReport, s2, q2)
          /\ Remount(v2)
          /\ ListNotify(s2, q2)
          /\ updateResult' = IF m.op = "update" THEN "undefined" ELSE updateResult
          /\ deleted' = IF m.op = "delete" THEN deleted \cup {m.id} ELSE deleted
    /\ UNCHANGED <<db, userId, isAuthReady, reports, isLoading, authPhase,
                   listSub, nextId, edits,
                   exportVars, foreignVars>>
    /\ IF Head(writeQueue).op = "add" THEN Render ELSE UNCHANGED rendered

\* addDoc / updateDoc / deleteDoc throws: the catch block logs (lines 140-142,
\* 155-157, 385-387, 395-397) and the handler returns
StoreRejects ==
    /\ writeQueue # <<>>
    /\ LET m == Head(writeQueue)
           q2 == Tail(writeQueue)
       IN /\ writeQueue' = q2
          /\ ActiveReportEffect(view, activeReportId, activeReport, store, q2)
          /\ ListNotify(store, q2)
          /\ updateResult' = IF m.op = "update" THEN "undefined" ELSE updateResult
    /\ UNCHANGED <<db, userId, isAuthReady, view, reports, activeReportId,
                   isLoading, authPhase, dashVars, activeDiscipline, listSub,
                   nextId, store, deleted, edits,
                   isGeneratingPdf, exportVars, foreignVars>>
    /\ UNCHANGED rendered

(***************************************************************************)
(* The listeners.                                                          *)
(***************************************************************************)
\* lines 76-82: the collection listener delivers the list
ListSnapshot ==
    /\ listSub = "live"
    /\ listDirty
    /\ reports' = LocalList(store, writeQueue)
    /\ isLoading' = FALSE
    /\ listDirty' = FALSE
    /\ UNCHANGED <<db, userId, isAuthReady, view, activeReport, activeReportId,
                   authPhase, dashVars, wsVars, listSub, docSubId, docSubStatus,
                   docDirty, storeVars, edits,
                   pdfVars, foreignVars>>
    /\ Render

\* lines 83-86: the collection listener fails; it delivers nothing afterwards
ListSnapshotError ==
    /\ listSub = "live"
    /\ listSub' = "error"
    /\ listDirty' = FALSE
    /\ isLoading' = FALSE
    /\ UNCHANGED <<db, userId, isAuthReady, view, reports, activeReport,
                   activeReportId, authPhase, dashVars, wsVars, docSubId,
                   docSubStatus, docDirty, storeVars, edits,
                   pdfVars, foreignVars>>
    /\ IF isLoading THEN Render ELSE UNCHANGED rendered

\* the effect of lines 374-378, run with the report a snapshot delivered
ReportEffect(report, current) ==
    IF report.currentDiscipline # "" THEN report.currentDiscipline ELSE current

\* lines 100-106: the document listener delivers the document, or not-found
DocSnapshot ==
    /\ docSubStatus = "live"
    /\ docDirty
    /\ LET snap == LocalDoc(docSubId, store, writeQueue)
       IN IF snap # <<>>
          THEN /\ activeReport' = WithId(docSubId, snap[1])
               /\ exportReport' = Detached
               /\ activeDiscipline' = ReportEffect(snap[1], activeDiscipline)
               /\ docDirty' = FALSE
               /\ UNCHANGED <<view, docSubId, docSubStatus, dashVars,
                              isGeneratingPdf>>
          ELSE /\ view' = "dashboard"
               /\ ActiveReportEffect("dashboard", activeReportId, activeReport,
                                     store, writeQueue)
               /\ Remount("dashboard")
    /\ UNCHANGED <<db, userId, isAuthReady, reports, activeReportId, isLoading,
                   authPhase, updateResult, listSub, listDirty, storeVars, edits,
                   exportVars, foreignVars>>
    /\ Render

\* lines 107-109: the document listener fails; it delivers nothing afterwards
DocSnapshotError ==
    /\ docSubStatus = "live"
    /\ docSubStatus' = "error"
    /\ docDirty' = FALSE
    /\ UNCHANGED <<appVars, dashVars, wsVars, listSub, listDirty, docSubId,
                   storeVars, edits,
                   pdfVars, foreignVars>>
    /\ UNCHANGED rendered

(***************************************************************************)
(* Other clients of the same collection (other browsers running this       *)
(* application): their writes reach the store and this client's listeners. *)
(***************************************************************************)
ForeignWrite(s2) ==
    /\ edits < MaxEdits
    /\ edits' = edits + 1
    /\ UNCHANGED <<isGeneratingPdf, exportVars>>
    /\ store' = s2
    /\ ActiveReportEffect(view, activeReportId, activeReport, s2, writeQueue)
    /\ ListNotify(s2, writeQueue)
    /\ UNCHANGED <<db, userId, isAuthReady, view, reports, activeReportId,
                   isLoading, authPhase, dashVars, wsVars, listSub, writeQueue,
                   nextId, deleted>>
    /\ UNCHANGED rendered

\* another client confirms the deletion of a report (lines 150-154 there)
ForeignDelete(id) ==
    /\ id \in DOMAIN store
    /\ ForeignWrite(Applied(store, DeleteOp(id)))
    /\ UNCHANGED foreignVars

\* another client issues handleUpdate / handleDeepUpdate (lines 380-398 there)
ForeignUpdate(id, path, value) ==
    /\ id \in DOMAIN store
    /\ ForeignWrite(Applied(store, UpdateOp(id, path, value)))
    /\ UNCHANGED foreignVars

(***************************************************************************)
(* The application: initialization, Dashboard, navigation, store answers,  *)
(* listeners and other clients.                                            *)
(***************************************************************************)
Next ==
    \/ InitializeFirebase
    \/ InitializeFirebaseThrows
    \/ AuthStateChangedUser
    \/ AuthStateChangedNoUser
    \/ SignInResolves
    \/ SignInRejects
    \/ handleCreateNewReport
    \/ \E id \in ReportIds : handleSelectReport(id)
    \/ \E id \in ReportIds : openDeleteModal(id)
    \/ closeModal
    \/ confirmDelete
    \/ handleGoToDashboard
    \/ \E d \in NavTargets : handleSelect(d)
    \/ StoreAccepts
    \/ StoreRejects
    \/ ListSnapshot
    \/ ListSnapshotError
    \/ DocSnapshot
    \/ DocSnapshotError
    \/ \E id \in ReportIds : ForeignDelete(id)
    \/ \E id \in ReportIds, d \in NavTargets :
            ForeignUpdate(id, <<"currentDiscipline">>, d)

Spec == Init /\ [][Next]_vars

\* A live listener delivers a waiting snapshot and the store answers every
\* write; neither listener is promised never to fail.  The initialization
\* effect runs once the component is mounted, the auth listener is called
\* with the current session, and the promise of signInAnonymously settles.
FairSpec ==
    /\ Spec
    /\ WF_vars(ListSnapshot)
    /\ WF_vars(DocSnapshot)
    /\ WF_vars(StoreAccepts \/ StoreRejects)
    /\ WF_vars(InitializeFirebase \/ InitializeFirebaseThrows)
    /\ WF_vars(AuthStateChangedUser \/ AuthStateChangedNoUser)
    /\ WF_vars(SignInResolves \/ SignInRejects \/ AuthStateChangedUser)

TypeOK ==
    /\ db \in BOOLEAN
    /\ userId \in {NoUser, Uid}
    /\ isAuthReady \in BOOLEAN
    /\ view \in {"dashboard", "workspace"}
    /\ DOMAIN reports \subseteq AllIds
    /\ activeReport.id \in AllIds \cup {NoId}
    /\ activeReportId \in AllIds \cup {NoId}
    /\ isLoading \in BOOLEAN
    /\ modalOpen \in BOOLEAN
    /\ reportToDelete \in AllIds \cup {NoId}
    /\ activeDiscipline \in DisciplineIds
    /\ updateResult \in {"none", "pending", "undefined"}
    /\ listSub \in {"none", "live", "error"}
    /\ docSubStatus \in {"none", "live", "error"}
    /\ docSubId \in AllIds \cup {NoId}
    /\ Len(writeQueue) <= MaxQueue
    /\ nextId \in 1..(MaxReports + 1)
    /\ DOMAIN store \subseteq AllIds
    /\ deleted \subseteq AllIds
    /\ edits \in 0..MaxEdits


(***************************************************************************)
(* The discipline editors (lines 535-748).  Each operator is the argument  *)
(* list an editor passes to its onUpdate prop; list positions count from 1 *)
(* here and from 0 in the source.                                          *)
(***************************************************************************)
\* D1_Team (lines 536-549)
D1_handleMemberChange(data, index, field, value) ==
    << [data EXCEPT ![index][field] = value] >>
D1_addMember(data) == << Append(data, [name |-> "", role |-> ""]) >>
D1RemoveLastMember(data, index) == << SubSeq(data, 1, Len(data) - 1) >>
D1_removeMember(data, index) == << FilterOut(data, index) >>

\* D2_ProblemDescription (line 583)
D2_onChange(key, value) == << <<"d2_problem", key>>, value >>

\* D3_ContainmentActions (lines 592-604), D5_CorrectiveActions (lines 700-710)
handleActionChange(data, index, field, value) ==
    << [data EXCEPT ![index][field] = value] >>
addAction(data) == << Append(data, EmptyAction) >>
removeAction(data, index) == << FilterOut(data, index) >>

HandleWhyChangeDropping(data, index, value) ==
    << <<"d4_root_cause", "five_whys">>, FilterOut(data.five_whys, index) >>

\* D4_RootCauseAnalysis (lines 629-653)
handleWhyChange(data, index, value) ==
    << <<"d4_root_cause", "five_whys">>, [data.five_whys EXCEPT ![index] = value] >>
addWhy(data) ==
    << <<"d4_root_cause", "five_whys">>, Append(data.five_whys, "") >>
handleFishboneChange(data, category, index, value) ==
    << <<"d4_root_cause", "fishbone">>,
       [data.fishbone EXCEPT ![category][index] = value] >>
addFishboneCause(data, category) ==
    << <<"d4_root_cause", "fishbone">>,
       [data.fishbone EXCEPT ![category] = Append(@, "")] >>
removeFishboneCause(data, category, index) ==
    << <<"d4_root_cause", "fishbone">>,
       [data.fishbone EXCEPT ![category] = FilterOut(@, index)] >>

\* { ...data, [key]: value }; the spread of a string has no key of the
\* schema, its characters are kept under "string" here
Spread(data, key, value) == (key :> value) @@ data

\* D6_Implementation, D7_Prevention, D8_Recognition (lines 734-747)
D6_onChange(data, key, value) == << "d6_implementation", Spread(data, key, value) >>
D7_onChange(data, key, value) == << "d7_prevention", Spread(data, key, value) >>
D8_onChange(data, key, value) == << "d8_recognition", Spread(data, key, value) >>

\* the field of the report each editor receives as data (lines 425-432)
FieldOf(d) ==
    CASE d = "D1" -> "d1_team"
      [] d = "D2" -> "d2_problem"
      [] d = "D3" -> "d3_containment"
      [] d = "D4" -> "d4_root_cause"
      [] d = "D5" -> "d5_corrective_actions"
      [] d = "D6" -> "d6_implementation"
      [] d = "D7" -> "d7_prevention"
      [] d = "D8" -> "d8_recognition"

\* The onUpdate prop of each editor (lines 425-432), as the <<path, value>>
\* handleDeepUpdate is called with.  D2 and D4 receive handleDeepUpdate
\* itself; the others receive (val) => handleDeepUpdate(field, val), which
\* takes the first argument of the call and drops the rest.  D6, D7 and D8
\* pass the field name first, so that name is the value written.
OnUpdate(d, args) ==
    CASE d \in {"D2", "D4"} -> << args[1], args[2] >>
      [] d \in {"D1", "D3", "D5"} -> << <<FieldOf(d)>>, args[1] >>
      [] d \in {"D6", "D7", "D8"} -> << <<FieldOf(d)>>, JsString(args[1]) >>

\* An editor of the active discipline calls onUpdate(args); ar2 is the
\* report object after the handler, which may have changed it in place.
Edit(d, args, ar2) ==
    /\ InWorkspace
    /\ activeDiscipline = d
    /\ edits < MaxEdits
    /\ Len(writeQueue) < MaxQueue
    /\ handleDeepUpdate(OnUpdate(d, args)[1], OnUpdate(d, args)[2])
    /\ UNCHANGED activeDiscipline
    /\ AfterWrite(ar2)
    /\ UNCHANGED rendered

\* An editor offers the inputs and buttons of its last render (shown); its
\* handlers work on the data prop of that render, the object the state
\* holds (data).  newData[index][field] = value writes into that object
\* (the copy [...data] is shallow), lines 538, 594, 702; handleDeepUpdate
\* sets no state, so the editor is not rendered again by the edit.
D1Edit ==
    /\ InWorkspace
    /\ LET data == activeReport.d1_team
           shown == rendered.d1_team
       IN \/ \E index \in 1..Len(shown), field \in {"name", "role"}, value \in Typed :
               Edit("D1", D1_handleMemberChange(data, index, field, value),
                    [activeReport EXCEPT !.d1_team[index][field] = value])
          \/ /\ Len(data) < MaxList
             /\ Edit("D1", D1_addMember(data), activeReport)
          \/ \E index \in 1..Len(shown) :
               Edit("D1", D1_removeMember(data, index), activeReport)

D2Edit ==
    \E k \in 1..Len(D2Keys), value \in Typed :
        Edit("D2", D2_onChange(D2Keys[k], value), activeReport)

ActionsEdit(d) ==
    /\ InWorkspace
    /\ LET f == FieldOf(d)
           data == activeReport[f]
           shown == rendered[f]
       IN \/ \E index \in 1..Len(shown), field \in {"action", "responsible", "date"},
                value \in Typed :
               Edit(d, handleActionChange(data, index, field, value),
                    [activeReport EXCEPT ![f][index][field] = value])
          \/ /\ Len(data) < MaxList
             /\ Edit(d, addAction(data), activeReport)
          \/ \E index \in 1..Len(shown) :
               Edit(d, removeAction(data, index), activeReport)

D3Edit == ActionsEdit("D3")
D5Edit == ActionsEdit("D5")

\* newFishbone[category][index] = value and newFishbone[category].push('')
\* write into the arrays the state holds ({ ...data.fishbone } is shallow),
\* lines 641 and 646
D4Edit ==
    /\ InWorkspace
    /\ LET data == activeReport.d4_root_cause
           shown == rendered.d4_root_cause
       IN \/ \E index \in 1..Len(shown.five_whys), value \in Typed :
               Edit("D4", handleWhyChange(data, index, value), activeReport)
          \/ /\ Len(data.five_whys) < MaxList
             /\ Edit("D4", addWhy(data), activeReport)
          \/ \E c \in CategorySet :
               \/ \E index \in 1..Len(shown.fishbone[c]), value \in Typed :
                    Edit("D4", handleFishboneChange(data, c, index, value),
                         [activeReport EXCEPT
                             !.d4_root_cause.fishbone[c][index] = value])
               \/ /\ Len(data.fishbone[c]) < MaxList
                  /\ Edit("D4", addFishboneCause(data, c),
                          [activeReport EXCEPT
                              !.d4_root_cause.fishbone[c] = Append(@, "")])
               \/ \E index \in 1..Len(shown.fishbone[c]) :
                    Edit("D4", removeFishboneCause(data, c, index), activeReport)

D6Edit ==
    \E key \in {"summary", "validation_results"}, value \in Typed :
        Edit("D6", D6_onChange(activeReport.d6_implementation, key, value),
             activeReport)
D7Edit ==
    \E key \in {"updated_docs", "new_standards"}, value \in Typed :
        Edit("D7", D7_onChange(activeReport.d7_prevention, key, value),
             activeReport)
D8Edit ==
    \E key \in {"summary", "celebration_date"}, value \in Typed :
        Edit("D8", D8_onChange(activeReport.d8_recognition, key, value),
             activeReport)

(***************************************************************************)
(* The Workspace at work: a report that was created, opened and navigated  *)
(* to one of the eight disciplines is edited.  Another client has the      *)
(* report open too.                                                        *)
(***************************************************************************)
OpenedAt(d) == [Skeleton(Uid) EXCEPT !.currentDiscipline = d]

InitEdit ==
    \E d \in DisciplineIds :
        /\ db = TRUE
        /\ userId = Uid
        /\ isAuthReady = TRUE
        /\ view = "workspace"
        /\ reports = (1 :> WithId(1, OpenedAt(d)))
        /\ activeReport = WithId(1, OpenedAt(d))
        /\ activeReportId = 1
        /\ isLoading = FALSE
        /\ authPhase = "ready"
        /\ modalOpen = FALSE
        /\ reportToDelete = NoId
        /\ activeDiscipline = d
        /\ updateResult = IF d = "D1" THEN "none" ELSE "undefined"
        /\ listSub = "live"
        /\ listDirty = FALSE
        /\ docSubId = 1
        /\ docSubStatus = "live"
        /\ docDirty = FALSE
        /\ writeQueue = <<>>
        /\ nextId = 2
        /\ store = (1 :> OpenedAt(d))
        /\ deleted = {}
        /\ edits = 0
        /\ PdfIdle
        /\ foreignReport = WithId(1, OpenedAt(d))
        /\ foreignRendered = foreignReport
        /\ foreignQueue = <<>>
        /\ rendered = activeReport

NextEdit ==
    \/ \E d \in DisciplineIds : handleSelect(d)
    \/ D1Edit
    \/ D2Edit
    \/ D3Edit
    \/ D4Edit
    \/ D5Edit
    \/ D6Edit
    \/ D7Edit
    \/ D8Edit
    \/ StoreAccepts
    \/ StoreRejects
    \/ DocSnapshot
    \/ ListSnapshot

SpecEdit == InitEdit /\ [][NextEdit]_vars


(***************************************************************************)
(* Properties of the deep update resolver and the editors.                 *)
(***************************************************************************)
\* new differs from old at most at the field (or nested key) path addresses
OnlyAt(old, new, path) ==
    /\ DOMAIN new = DOMAIN old
    /\ \A f \in DOMAIN old \ {path[1]} : new[f] = old[f]
    /\ Len(path) = 2 =>
          /\ DOMAIN new[path[1]] = DOMAIN old[path[1]]
          /\ \A k \in DOMAIN old[path[1]] \ {path[2]} :
                new[path[1]][k] = old[path[1]][k]

\* C1: whenever a write issued through handleUpdate / handleDeepUpdate
\* changes a persisted report, the report after the write differs from the
\* report before it only at the addressed top-level field or, for a dotted
\* path, only at the addressed key of the nested mapping.
C1_FrameEffect ==
    [][ \A id \in DOMAIN store \cap DOMAIN store' :
            store'[id] # store[id] =>
                /\ writeQueue # <<>>
                /\ Head(writeQueue).op = "update"
                /\ Head(writeQueue).id = id
                /\ OnlyAt(store[id], store'[id], Head(writeQueue).path) ]_vars

\* a nested key was written and its sibling keys kept their values
C1_Witness ==
    /\ 1 \in DOMAIN store
    /\ store[1].d2_problem.where = "x"
    /\ store[1].d2_problem.what = ""
    /\ store[1].d4_root_cause = Skeleton(Uid).d4_root_cause

\* C4: in every persisted report d6_implementation is a mapping with the
\* keys summary and validation_results, d7_prevention a mapping with the
\* keys updated_docs and new_standards, and d8_recognition a mapping with
\* the keys summary and celebration_date, whatever was typed in the D6, D7
\* and D8 editors.
C4_MappingsKept ==
    \A id \in DOMAIN store :
        /\ DOMAIN store[id].d6_implementation = {"summary", "validation_results"}
        /\ DOMAIN store[id].d7_prevention = {"updated_docs", "new_standards"}
        /\ DOMAIN store[id].d8_recognition = {"summary", "celebration_date"}

\* the field paths the editors and the navigation address
Paths == { <<"currentDiscipline">>, <<"d1_team">>, <<"d2_problem", "where">>,
           <<"d4_root_cause", "five_whys">>, <<"d4_root_cause", "fishbone">> }

Last(q) == q[Len(q)]
\* this step issued a write
Issued == Len(writeQueue') = Len(writeQueue) + 1
\* the store answered the oldest write in this step
Answered == Len(writeQueue') = Len(writeQueue) - 1

\* the default shapes of section 3 of the specification
DefaultShapes(data) ==
    /\ {"d1_team", "d2_problem", "d3_containment", "d4_root_cause",
        "d5_corrective_actions", "d6_implementation", "d7_prevention",
        "d8_recognition"} \subseteq DOMAIN data
    /\ DOMAIN data.d2_problem = {D2Keys[k] : k \in 1..Len(D2Keys)}
    /\ \A k \in 1..Len(D2Keys) : data.d2_problem[D2Keys[k]] = ""
    /\ Len(D2Keys) = 7
    /\ Len(data.d1_team) = 1
    /\ data.d3_containment = << EmptyAction >>
    /\ data.d5_corrective_actions = << EmptyAction >>
    /\ DOMAIN data.d4_root_cause = {"five_whys", "fishbone"}
    /\ data.d4_root_cause.five_whys = << "" >>
    /\ DOMAIN data.d4_root_cause.fishbone =
          {"Manpower", "Machine", "Method", "Material", "Measurement", "Environment"}
    /\ \A c \in DOMAIN data.d4_root_cause.fishbone :
          data.d4_root_cause.fishbone[c] = <<>>
    /\ data.d6_implementation = [summary |-> "", validation_results |-> ""]
    /\ data.d7_prevention = [updated_docs |-> "", new_standards |-> ""]
    /\ data.d8_recognition = [summary |-> "", celebration_date |-> ""]

\* C2: every step in which the store gains a document is the completion of
\* a Create: it gains exactly one document, that document has
\* currentDiscipline D1, createdBy the current user and the eight discipline
\* fields in their default shapes, and after the step activeReportId is its
\* id and the view is the Workspace.
C2_CreateSkeleton ==
    [][ DOMAIN store' # DOMAIN store /\ DOMAIN store \subseteq DOMAIN store' =>
            \E id \in ReportIds :
                /\ id \notin DOMAIN store
                /\ DOMAIN store' = DOMAIN store \cup {id}
                /\ store'[id].currentDiscipline = "D1"
                /\ userId # NoUser
                /\ store'[id].createdBy = userId
                /\ DefaultShapes(store'[id])
                /\ activeReportId' = id
                /\ view' = "workspace" ]_vars

\* a report was created and is now the active report of the Workspace
C2_Witness ==
    /\ view = "workspace"
    /\ activeReportId \in DOMAIN store
    /\ activeReportId \notin DOMAIN reports
    /\ activeReport = NoReport
    /\ store[activeReportId] = Skeleton(userId)


\* with the report loaded, nothing of this client unanswered and no
\* snapshot waiting, the Workspace shows the persisted currentDiscipline
RoundTrip ==
    ( /\ view = "workspace"
      /\ activeReport # NoReport
      /\ activeReport.id = activeReportId
      /\ docSubStatus = "live"
      /\ ~docDirty
      /\ writeQueue = <<>> )
    => /\ activeReportId \in DOMAIN store
       /\ activeDiscipline = store[activeReportId].currentDiscipline

\* this step issued the write of a discipline selection
NavIssued ==
    /\ Issued
    /\ Last(writeQueue').op = "update"
    /\ Last(writeQueue').path = <<"currentDiscipline">>
\* the store answered the write of a discipline selection in this step
NavAnswered ==
    /\ Answered
    /\ Head(writeQueue).op = "update"
    /\ Head(writeQueue).path = <<"currentDiscipline">>

\* C3 (as stated): whenever the write of a discipline selection d has been
\* answered, the persisted currentDiscipline of that report is d.
C3_AlwaysPersisted ==
    [][ NavAnswered =>
            /\ Head(writeQueue).id \in DOMAIN store'
            /\ store'[Head(writeQueue).id].currentDiscipline
                    = Head(writeQueue).value ]_vars

\* C3 (amended): selecting d makes d the active discipline and issues one
\* update of currentDiscipline to d for the open report; when the store
\* answers, the persisted currentDiscipline is d or nothing was changed
\* (the update was rejected); and a loaded Workspace with nothing in flight
\* shows the persisted currentDiscipline, so a report whose update was
\* accepted reopens at d.
C3_Navigation ==
    /\ []RoundTrip
    /\ [][ NavIssued =>
              /\ activeDiscipline' = Last(writeQueue').value
              /\ Last(writeQueue').id = activeReportId
              /\ activeReportId' = activeReportId
              /\ view' = view ]_vars
    /\ [][ NavAnswered =>
              \/ store' = store
              \/ /\ Head(writeQueue).id \in DOMAIN store'
                 /\ OnlyAt(store[Head(writeQueue).id], store'[Head(writeQueue).id],
                           <<"currentDiscipline">>)
                 /\ store'[Head(writeQueue).id].currentDiscipline
                        = Head(writeQueue).value ]_vars

\* this client selected D2, the store accepted it and the Workspace shows it
C3_Witness ==
    /\ view = "workspace"
    /\ activeReport # NoReport
    /\ activeDiscipline = "D2"
    /\ activeReport.currentDiscipline = "D2"
    /\ updateResult = "undefined"
    /\ writeQueue = <<>>
    /\ ~docDirty
    /\ activeReportId \in DOMAIN store
    /\ store[activeReportId].currentDiscipline = "D2"

\* the step is a click on a report card
IsSelect ==
    /\ CardShown(activeReportId')
    /\ ~modalOpen
    /\ Len(writeQueue') = Len(writeQueue)
    /\ store' = store
\* the step is the completion of a Create the store accepted
IsCreated ==
    /\ Answered
    /\ Head(writeQueue).op = "add"
    /\ Head(writeQueue).id \in DOMAIN store' \ DOMAIN store
    /\ activeReportId' = Head(writeQueue).id
\* the step is a click on the go-to-dashboard button
IsGoToDashboard ==
    /\ InWorkspace
    /\ activeReportId' = NoId
    /\ activeReport' = NoReport
    /\ Len(writeQueue') = Len(writeQueue)
    /\ store' = store
\* the step is the document listener delivering not-found
IsNotFound ==
    /\ docSubStatus = "live"
    /\ docDirty
    /\ LocalDoc(docSubId, store, writeQueue) = <<>>
    /\ activeReportId' = activeReportId
    /\ Len(writeQueue') = Len(writeQueue)
    /\ store' = store
\* the step issued a deleteDoc
DeleteIssued == Issued /\ Last(writeQueue').op = "delete"

\* C5 (as stated): the view is Dashboard or Workspace; it goes from
\* Dashboard to Workspace only on create or select, from Workspace to
\* Dashboard only on the go-to-dashboard action, and a confirmed delete
\* leaves it unchanged.
C5_OnlyGoToDashboard ==
    /\ [](view \in {"dashboard", "workspace"})
    /\ [][ /\ (view = "dashboard" /\ view' = "workspace") => (IsSelect \/ IsCreated)
           /\ (view = "workspace" /\ view' = "dashboard") => IsGoToDashboard
           /\ DeleteIssued => view' = view ]_vars

\* C5 (amended): the view is Dashboard or Workspace; it goes from Dashboard
\* to Workspace only on select or when the store accepted a Create, from
\* Workspace to Dashboard only on the go-to-dashboard action or when the
\* document listener of the active report delivers not-found, and a
\* confirmed delete leaves it unchanged.
C5_Views ==
    /\ [](view \in {"dashboard", "workspace"})
    /\ [][ /\ (view = "dashboard" /\ view' = "workspace") => (IsSelect \/ IsCreated)
           /\ (view = "workspace" /\ view' = "dashboard") =>
                    (IsGoToDashboard \/ IsNotFound)
           /\ DeleteIssued => (view = "dashboard" /\ view' = view) ]_vars

\* the Workspace was left because the active report vanished
C5_Witness ==
    /\ view = "dashboard"
    /\ activeReportId # NoId
    /\ activeReportId \notin DOMAIN store

\* C7: deleteDoc is issued for id only by Confirm in the modal opened for
\* id; the id of the modal is the id of the card whose delete button was
\* clicked; Cancel issues nothing; and the click on the delete button leaves
\* view and activeReportId unchanged.
C7_DeleteConfirmed ==
    [][ /\ DeleteIssued =>
              /\ OnDashboard
              /\ modalOpen
              /\ reportToDelete = Last(writeQueue').id
              /\ ~modalOpen'
        /\ (reportToDelete' # reportToDelete /\ reportToDelete' # NoId) =>
              /\ CardShown(reportToDelete')
              /\ modalOpen'
        /\ (modalOpen /\ ~modalOpen' /\ reportToDelete' = reportToDelete) => ~Issued
        /\ \A id \in ReportIds :
              openDeleteModal(id) =>
                  /\ view' = view
                  /\ activeReportId' = activeReportId
                  /\ ~Issued ]_vars

\* a delete was confirmed in the modal and issued, on the Dashboard
C7_Witness ==
    /\ view = "dashboard"
    /\ activeReportId = NoId
    /\ ~modalOpen
    /\ writeQueue # <<>>
    /\ Head(writeQueue).op = "delete"
    /\ Head(writeQueue).id \in DOMAIN reports

\* C8: no document subscription is live on the Dashboard, no list
\* subscription is live in the Workspace, and a subscription that is not
\* live writes neither reports nor activeReport.
C8_TornDownWithView ==
    /\ [](view = "dashboard" => docSubStatus # "live")
    /\ [](view = "workspace" => listSub # "live")
    /\ [][ /\ listSub # "live" => reports' = reports
           /\ docSubStatus # "live" =>
                 (activeReport' = activeReport \/ activeReport' = NoReport) ]_vars

\* C9: in the Workspace, when the document subscription of the active
\* report fails, or delivers not-found, the view becomes the Dashboard.
C9_RedirectOnFailure ==
    [][ ( /\ view = "workspace"
          /\ docSubStatus = "live"
          /\ \/ docSubStatus' = "error"
             \/ IsNotFound /\ ~docDirty' )
        => view' = "dashboard" ]_vars


\* C6: once the deleteDoc this client issued for id has returned, id
\* eventually is not in the reports list; and neither issuing the delete
\* nor its answer changes activeReportId or the view.
C6_DeletedLeavesList ==
    /\ \A id \in ReportIds : [](id \in deleted => <>(id \notin DOMAIN reports))
    /\ [][ ( \/ DeleteIssued
             \/ Answered /\ Head(writeQueue).op = "delete" )
           => (activeReportId' = activeReportId /\ view' = view) ]_vars


\* this step issued the addDoc of a Create
CreateIssued == Issued /\ Last(writeQueue').op = "add"
\* the store rejected the addDoc of a Create in this step
CreateRejected ==
    /\ Answered
    /\ Head(writeQueue).op = "add"
    /\ Head(writeQueue).id \notin DOMAIN store'

\* C11: without a store handle or without a user id Create issues no addDoc
\* (and every addDoc waiting carries the user id); a Create whose addDoc
\* the store rejects adds no document and leaves view, activeReportId,
\* activeReport and the rest of the application state as they were, so that
\* no loading or error state is entered.
C11_CreateFailsSilently ==
    /\ [](\A i \in DOMAIN writeQueue :
             writeQueue[i].op = "add" =>
                 (db /\ userId # NoUser /\ writeQueue[i].value.createdBy = userId))
    /\ [][ (~db \/ userId = NoUser) => ~CreateIssued ]_vars
    /\ [][ CreateRejected =>
              /\ store' = store
              /\ view' = view
              /\ activeReportId' = activeReportId
              /\ activeReport' = activeReport
              /\ UNCHANGED <<db, userId, isAuthReady, reports, isLoading, authPhase,
                             dashVars, wsVars, listSub, docSubId, docSubStatus>> ]_vars

\* a Create was rejected by the store: an id was used, no document exists,
\* and the application is on the Dashboard as before
C11_Witness ==
    /\ nextId > 1
    /\ writeQueue = <<>>
    /\ store = <<>>
    /\ deleted = {}
    /\ edits = 0
    /\ view = "dashboard"
    /\ activeReportId = NoId
    /\ activeReport = NoReport


\* C12: in every execution the application eventually is ready
\* (isAuthReady = true), also when the initialization throws and when no
\* session exists and the anonymous sign-in fails.
C12_EventuallyReady == <>isAuthReady


\* C13: once the application is ready the loading indicator of the Dashboard
\* eventually is false, also without a store handle and after an error of
\* the list subscription; and after such an error the reports list is empty.
C13_LoadingClears ==
    /\ [](isAuthReady => <>(~isLoading))
    /\ [](listSub = "error" => reports = <<>>)


(***************************************************************************)
(* PDF export (lines 11-26, 299-367, 400-414).                             *)
(***************************************************************************)
\* the two renderer scripts of lines 404-405
Scripts == {"jspdf.umd.min.js", "jspdf.plugin.autotable.min.js"}

\* The keys of a map of a snapshot come in the order the Firestore client
\* built the object in.  The code fixes no order: a document served from the
\* client's own pending write has the keys as the application wrote them
\* (lines 127, 131), a document sent by the server has them sorted.
D2KeysSorted == <<"how", "how_many", "what", "when", "where", "who", "why">>
FishboneCategoriesSorted ==
    <<"Environment", "Machine", "Manpower", "Material", "Measurement", "Method">>
KeyOrders ==
    { [d2_problem |-> D2Keys, fishbone |-> FishboneCategories],
      [d2_problem |-> D2KeysSorted, fishbone |-> FishboneCategoriesSorted] }

\* Object.entries(obj): the pairs of obj in the order of its keys
ObjectEntries(obj, keys) ==
    LET present == SelectSeq(keys, LAMBDA k : k \in DOMAIN obj)
    IN [i \in 1..Len(present) |-> << present[i], obj[present[i]] >>]

\* causes.join('\n') of line 360
RECURSIVE Join(_)
Join(causes) ==
    IF causes = <<>> THEN ""
    ELSE IF Len(causes) = 1 THEN causes[1]
    ELSE causes[1] \o "\n" \o Join(Tail(causes))

\* line 360
fishbone_body(report, keys) ==
    LET entries == ObjectEntries(report.d4_root_cause.fishbone, keys.fishbone)
    IN [i \in 1..Len(entries) |-> << entries[i][1], Join(entries[i][2]) >>]

\* line 333
d2_body(report, keys) == ObjectEntries(report.d2_problem, keys.d2_problem)

\* lines 299-367 when no call of the renderer throws: the document handed to
\* doc.save at line 366, for a report whose maps have their keys in the
\* order keys
PdfDocument(report, keys) ==
    [ name |-> << "Informe_8D_", report.id, ".pdf" >>,
      title |-> report.title,
      d1_body |-> [i \in 1..Len(report.d1_team) |->
                      << report.d1_team[i].name, report.d1_team[i].role >>],
      d2_body |-> d2_body(report, keys),
      d3_body |-> [i \in 1..Len(report.d3_containment) |->
                      << report.d3_containment[i].action,
                         report.d3_containment[i].responsible,
                         report.d3_containment[i].date >>],
      five_whys |-> [i \in 1..Len(report.d4_root_cause.five_whys) |->
                      << i, report.d4_root_cause.five_whys[i] >>],
      fishbone_body |-> fishbone_body(report, keys) ]

GeneratePdfSavingFirst(report, keys, rendererThrows) ==
    << PdfDocument(report, keys) >>

\* generatePdf (lines 299-367): the files saved by one call.  doc.save is
\* its last statement, so a call in which the renderer throws saves nothing.
generatePdf(report, keys, rendererThrows) ==
    IF rendererThrows THEN <<>> ELSE << PdfDocument(report, keys) >>

\* loadScript (lines 12-26) called for src: TRUE when the promise resolves
\* at once (line 14), else a script element is appended
loadScript(src) == src \in loadedScripts

\* f without its entry for attempt a
Without(f, a) == [b \in DOMAIN f \ {a} |-> f[b]]

\* the handleGeneratePdf calls that have not returned
Running == DOMAIN exportReport

\* Attempt a was started by the Workspace that is mounted now, so that its
\* setIsGeneratingPdf (line 412) sets the indicator on the screen.  The
\* button is disabled while the indicator is set (line 446): the attempt of
\* the mounted Workspace is the latest one running.  A call of a Workspace
\* that was unmounted sets the state of that Workspace, which nothing shows.
Mounted(a) == isGeneratingPdf /\ \A b \in Running : b <= a

\* the argument of generatePdf at line 406, as attempt a finds it
Closure(a) ==
    IF exportReport[a].shared THEN activeReport ELSE exportReport[a].report

\* lines 400-406: the click on the export button, up to the await
handleGeneratePdf ==
    /\ InWorkspace
    /\ ~isGeneratingPdf
    /\ edits < MaxEdits
    /\ edits' = edits + 1
    /\ isGeneratingPdf' = TRUE
    /\ LET a == edits'
           tags == {<< a, src >> : src \in {s \in Scripts : ~loadScript(s)}}
       IN /\ exportReport' = (a :> Shared) @@ exportReport
          /\ scriptTags' = scriptTags \cup tags
          /\ pending' = (a :> tags) @@ pending
    /\ UNCHANGED <<appVars, dashVars, wsVars, subVars, storeVars,
                   loadedScripts, exportLog, saved, foreignVars>>
    /\ Render

\* lines 19-22: script.onload
ScriptOnLoad(tag) ==
    /\ tag \in scriptTags
    /\ scriptTags' = scriptTags \ {tag}
    /\ loadedScripts' = loadedScripts \cup {tag[2]}
    /\ pending' = [a \in DOMAIN pending |-> pending[a] \ {tag}]
    /\ UNCHANGED <<appVars, dashVars, wsVars, subVars, storeVars, edits,
                   isGeneratingPdf, exportReport, exportLog, saved,
                   foreignVars>>
    /\ UNCHANGED rendered

\* line 23: script.onerror.  When the attempt that appended this script
\* still awaits it, its Promise.all rejects: lines 407-412 log and reset the
\* indicator.
ScriptOnError(tag) ==
    /\ tag \in scriptTags
    /\ scriptTags' = scriptTags \ {tag}
    /\ LET a == tag[1]
       IN IF a \in Running /\ tag \in pending[a]
          THEN /\ pending' = Without(pending, a)
               /\ exportReport' = Without(exportReport, a)
               /\ exportLog' = "error"
               /\ isGeneratingPdf' = IF Mounted(a) THEN FALSE ELSE isGeneratingPdf
          ELSE UNCHANGED <<pending, exportReport, exportLog, isGeneratingPdf>>
    /\ UNCHANGED <<appVars, dashVars, wsVars, subVars, storeVars, edits,
                   loadedScripts, saved, foreignVars>>
    /\ rendered' = IF isGeneratingPdf' # isGeneratingPdf THEN activeReport ELSE rendered

\* lines 406-412 after the Promise.all of attempt a resolved:
\* generatePdf(report), then the catch block if it threw, then finally
PromiseAllResolves(a) ==
    /\ a \in Running
    /\ pending[a] = {}
    /\ \E rendererThrows \in BOOLEAN, keys \in KeyOrders :
          /\ saved' = saved \o generatePdf(Closure(a), keys, rendererThrows)
          /\ exportLog' = IF rendererThrows THEN "error" ELSE "saved"
    /\ isGeneratingPdf' = IF Mounted(a) THEN FALSE ELSE isGeneratingPdf
    /\ pending' = Without(pending, a)
    /\ exportReport' = Without(exportReport, a)
    /\ UNCHANGED <<appVars, dashVars, wsVars, subVars, storeVars, edits,
                   loadedScripts, scriptTags, foreignVars>>
    /\ rendered' = IF isGeneratingPdf' # isGeneratingPdf THEN activeReport ELSE rendered

\* Another client has the report open at D4.  A handler of its editor
\* (lines 627-653 there) works on the report object of that client's state
\* and offers the elements of that client's last render; it changes the
\* object in place (lines 641, 646) and calls updateDoc (line 394), which
\* the store answers later.
ForeignEdit(args, fr2) ==
    /\ edits < MaxEdits
    /\ edits' = edits + 1
    /\ Len(foreignQueue) < MaxQueue
    /\ foreignQueue' = Append(foreignQueue,
                              UpdateOp(foreignReport.id, args[1], args[2]))
    /\ foreignReport' = fr2
    /\ UNCHANGED <<appVars, dashVars, wsVars, subVars, storeVars, pdfVars,
                   rendered, foreignRendered>>

ForeignD4Edit ==
    /\ foreignReport # NoReport
    /\ LET data == foreignReport.d4_root_cause
           shown == foreignRendered.d4_root_cause
       IN \/ \E index \in 1..Len(shown.five_whys), value \in Typed :
               ForeignEdit(handleWhyChange(data, index, value), foreignReport)
          \/ /\ Len(data.five_whys) < MaxList
             /\ ForeignEdit(addWhy(data), foreignReport)
          \/ \E c \in CategorySet :
               \/ \E index \in 1..Len(shown.fishbone[c]), value \in Typed :
                    ForeignEdit(handleFishboneChange(data, c, index, value),
                                [foreignReport EXCEPT
                                    !.d4_root_cause.fishbone[c][index] = value])
               \/ /\ Len(data.fishbone[c]) < MaxList
                  /\ ForeignEdit(addFishboneCause(data, c),
                                 [foreignReport EXCEPT
                                     !.d4_root_cause.fishbone[c] = Append(@, "")])
               \/ \E index \in 1..Len(shown.fishbone[c]) :
                    ForeignEdit(removeFishboneCause(data, c, index),
                                foreignReport)

\* the store applies the oldest unanswered write of the other client; this
\* client's listeners hear of it
ForeignAccepts ==
    /\ foreignQueue # <<>>
    /\ Head(foreignQueue).id \in DOMAIN store
    /\ LET s2 == Applied(store, Head(foreignQueue))
       IN /\ store' = s2
          /\ ActiveReportEffect(view, activeReportId, activeReport, s2, writeQueue)
          /\ ListNotify(s2, writeQueue)
    /\ foreignQueue' = Tail(foreignQueue)
    /\ UNCHANGED <<db, userId, isAuthReady, view, reports, activeReportId,
                   isLoading, authPhase, dashVars, wsVars, listSub, writeQueue,
                   nextId, deleted, edits, isGeneratingPdf, exportVars,
                   rendered, foreignReport, foreignRendered>>

\* the store rejects it: the catch block there logs (lines 395-397); what
\* the handler wrote in place stays in that client's report object
ForeignRejects ==
    /\ foreignQueue # <<>>
    /\ foreignQueue' = Tail(foreignQueue)
    /\ UNCHANGED <<appVars, dashVars, wsVars, subVars, storeVars, edits,
                   pdfVars, rendered, foreignReport, foreignRendered>>

\* the other client's document listener (lines 100-102 there) delivers the
\* document as that client sees it: the store's, with the client's own
\* unanswered writes applied
ForeignSnapshot ==
    /\ foreignReport # NoReport
    /\ LET id == foreignReport.id
           snap == LocalDoc(id, store, foreignQueue)
       IN /\ snap # <<>>
          /\ \/ WithId(id, snap[1]) # foreignReport
             \/ foreignRendered # foreignReport
          /\ foreignReport' = WithId(id, snap[1])
          /\ foreignRendered' = WithId(id, snap[1])
    /\ UNCHANGED <<appVars, dashVars, wsVars, subVars, storeVars, edits,
                   pdfVars, rendered, foreignQueue>>

\* the other client's collection listener (lines 76-82 there) delivers the
\* list after a write of that client: its App is rendered again, and its
\* editor shows what the handlers wrote in place
ForeignListSnapshot ==
    /\ foreignRendered # foreignReport
    /\ foreignRendered' = foreignReport
    /\ UNCHANGED <<appVars, dashVars, wsVars, subVars, storeVars, edits,
                   pdfVars, rendered, foreignReport, foreignQueue>>

\* a report opened at D4 in the Workspace: its root-cause analysis is edited,
\* here and by another client, and it is exported
InitPdf == InitEdit /\ activeDiscipline = "D4"

NextPdf ==
    \/ D4Edit
    \/ ForeignD4Edit
    \/ ForeignAccepts
    \/ ForeignRejects
    \/ ForeignSnapshot
    \/ ForeignListSnapshot
    \/ StoreAccepts
    \/ StoreRejects
    \/ DocSnapshot
    \/ ListSnapshot
    \/ handleGeneratePdf
    \/ \E tag \in (1..MaxEdits) \X Scripts : ScriptOnLoad(tag)
    \/ \E tag \in (1..MaxEdits) \X Scripts : ScriptOnError(tag)
    \/ \E a \in 1..MaxEdits : PromiseAllResolves(a)

SpecPdf == InitPdf /\ [][NextPdf]_vars

\* the same report is navigated, exported, left and opened again
NextExport ==
    \/ \E d \in NavTargets : handleSelect(d)
    \/ StoreAccepts
    \/ StoreRejects
    \/ DocSnapshot
    \/ ListSnapshot
    \/ handleGoToDashboard
    \/ \E id \in ReportIds : handleSelectReport(id)
    \/ handleGeneratePdf
    \/ \E tag \in (1..MaxEdits) \X Scripts : ScriptOnLoad(tag)
    \/ \E tag \in (1..MaxEdits) \X Scripts : ScriptOnError(tag)
    \/ \E a \in 1..MaxEdits : PromiseAllResolves(a)

SpecExport == InitPdf /\ [][NextExport]_vars

\* every script element fires load or error, a settled Promise.all is
\* continued, the store answers and the listeners deliver
FairSpecExport ==
    /\ SpecExport
    /\ \A tag \in (1..MaxEdits) \X Scripts :
          WF_vars(ScriptOnLoad(tag) \/ ScriptOnError(tag))
    /\ \A a \in 1..MaxEdits : WF_vars(PromiseAllResolves(a))
    /\ WF_vars(StoreAccepts \/ StoreRejects)
    /\ WF_vars(DocSnapshot)
    /\ WF_vars(ListSnapshot)


\* the attempt that returned in this step, and what it handed to generatePdf
Ended == Running \ DOMAIN exportReport'
Printed == Closure(CHOOSE a \in Ended : TRUE)

\* C14: every export attempt eventually resets the generating indicator and
\* returns; an attempt that ends in the catch block (a script failed to
\* load, or the renderer threw) saves no file; a file is saved only by an
\* attempt that ran to its end with both scripts loaded; and the indicator
\* is set only while an attempt of the Workspace on the screen is running,
\* so the export button works again afterwards.
C14_ExportSettles ==
    /\ [](isGeneratingPdf => <>(~isGeneratingPdf))
    /\ [](Running # {} => <>(Running = {}))
    /\ [][ (Ended # {} /\ exportLog' = "error") => saved' = saved ]_vars
    /\ [][ saved' # saved =>
              /\ Ended # {}
              /\ exportLog' = "saved"
              /\ Scripts \subseteq loadedScripts
              /\ \E keys \in KeyOrders :
                    saved' = Append(saved, PdfDocument(Printed, keys)) ]_vars
    /\ [](isGeneratingPdf => (view = "workspace" /\ Running # {}))

\* an attempt failed because a script did not load (its other script is
\* still loading) and a later attempt saved the file
C14_Witness ==
    /\ << 1, "jspdf.plugin.autotable.min.js" >> \in scriptTags
    /\ "jspdf.umd.min.js" \in loadedScripts
    /\ exportLog = "saved"
    /\ Len(saved) = 1
    /\ ~isGeneratingPdf
    /\ Running = {}


(***************************************************************************)
(* The team editor at work on any roster: a report whose d1_team is one of *)
(* the rosters the editor can produce is open at D1.                       *)
(***************************************************************************)
Members == [name : Typed \cup {""}, role : Typed \cup {""}]
             \cup { Skeleton(Uid).d1_team[1] }
RECURSIVE SeqsUpTo(_, _)
SeqsUpTo(S, n) ==
    IF n = 0 THEN { <<>> }
    ELSE SeqsUpTo(S, n - 1)
            \cup { Append(r, m) : r \in {q \in SeqsUpTo(S, n - 1) : Len(q) = n - 1},
                                  m \in S }
Rosters == SeqsUpTo(Members, MaxList - 1)

InitRoster ==
    \E r \in Rosters :
        LET report == [OpenedAt("D1") EXCEPT !.d1_team = r]
        IN /\ db = TRUE
           /\ userId = Uid
           /\ isAuthReady = TRUE
           /\ view = "workspace"
           /\ reports = (1 :> WithId(1, report))
           /\ activeReport = WithId(1, report)
           /\ activeReportId = 1
           /\ isLoading = FALSE
           /\ authPhase = "ready"
           /\ modalOpen = FALSE
           /\ reportToDelete = NoId
           /\ activeDiscipline = "D1"
           /\ updateResult = "undefined"
           /\ listSub = "live"
           /\ listDirty = FALSE
           /\ docSubId = 1
           /\ docSubStatus = "live"
           /\ docDirty = FALSE
           /\ writeQueue = <<>>
           /\ nextId = 2
           /\ store = (1 :> report)
           /\ deleted = {}
           /\ edits = 0
           /\ PdfIdle
           /\ foreignReport = NoReport
           /\ foreignRendered = NoReport
           /\ foreignQueue = <<>>
           /\ rendered = activeReport

NextRoster ==
    \/ D1Edit
    \/ StoreAccepts
    \/ StoreRejects
    \/ DocSnapshot
    \/ ListSnapshot

SpecRoster == InitRoster /\ [][NextRoster]_vars

\* this step issued a write of the whole d1_team
TeamIssued ==
    /\ Issued
    /\ Last(writeQueue').op = "update"
    /\ Last(writeQueue').path = <<"d1_team">>
\* the roster the editor holds (its data prop), and the roster the step wrote
Shown == activeReport.d1_team
Written == Last(writeQueue').value

\* C15: removing the member that addMember added to a roster gives the
\* roster back, same members in the same order; the write of an addMember
\* is the roster the editor holds with one blank member appended; the write
\* of a removeMember is that roster without one position i, the members
\* before i in place and the members after i one position down; and the
\* editor holds and displays the persisted roster once the store has
\* answered and the snapshot is delivered.
C15_AddThenRemove ==
    /\ \A r \in SeqsUpTo(Members, MaxList) :
          /\ D1_removeMember(D1_addMember(r)[1], Len(r) + 1)[1] = r
          /\ \A i \in 1..Len(r) :
                LET out == D1_removeMember(r, i)[1]
                IN /\ Len(out) = Len(r) - 1
                   /\ \A j \in 1..(i - 1) : out[j] = r[j]
                   /\ \A j \in i..(Len(r) - 1) : out[j] = r[j + 1]
    /\ [][ (TeamIssued /\ Len(Written) = Len(Shown) + 1) =>
              Written = Append(Shown, [name |-> "", role |-> ""]) ]_vars
    /\ [][ (TeamIssued /\ Len(Written) = Len(Shown) - 1) =>
              \E i \in 1..Len(Shown) :
                  /\ \A j \in 1..(i - 1) : Written[j] = Shown[j]
                  /\ \A j \in i..Len(Written) : Written[j] = Shown[j + 1] ]_vars
    /\ []( ( writeQueue = <<>> /\ ~docDirty /\ docSubStatus = "live"
             /\ activeReport # NoReport /\ activeReportId \in DOMAIN store )
           => ( /\ Shown = store[activeReportId].d1_team
                /\ rendered.d1_team = store[activeReportId].d1_team ) )

\* a member was added, the store accepted it, the editor displayed the
\* longer roster, and the removal of the added member is on its way: the
\* write is the persisted roster without its last, blank member
C15_Witness ==
    /\ edits = 2
    /\ writeQueue # <<>>
    /\ Head(writeQueue).path = <<"d1_team">>
    /\ Len(Shown) = Len(Head(writeQueue).value) + 1
    /\ Shown = store[1].d1_team
    /\ rendered.d1_team = Shown
    /\ Shown[Len(Shown)] = [name |-> "", role |-> ""]
    /\ Head(writeQueue).value = SubSeq(Shown, 1, Len(Shown) - 1)
    /\ Len(Shown) >= 2


\* the lists of whys an editor can display
WhyLists == SeqsUpTo(Typed \cup {""}, MaxList)

\* C16: the five_whys of a created report has at least one entry in every
\* state, in the store and in the editor, whatever addWhy and handleWhyChange
\* operations this client and other clients perform; addWhy makes a list of
\* any length one entry longer and handleWhyChange keeps its length.
C16_AtLeastOneWhy ==
    /\ \A id \in DOMAIN store : Len(store[id].d4_root_cause.five_whys) >= 1
    /\ activeReport # NoReport => Len(activeReport.d4_root_cause.five_whys) >= 1
    /\ foreignReport # NoReport => Len(foreignReport.d4_root_cause.five_whys) >= 1
    /\ \A i \in DOMAIN writeQueue :
          writeQueue[i].path = <<"d4_root_cause", "five_whys">> =>
              Len(writeQueue[i].value) >= 1
    /\ \A i \in DOMAIN foreignQueue :
          foreignQueue[i].path = <<"d4_root_cause", "five_whys">> =>
              Len(foreignQueue[i].value) >= 1
    /\ \A whys \in WhyLists :
          LET data == [Skeleton(Uid).d4_root_cause EXCEPT !.five_whys = whys]
          IN /\ Len(addWhy(data)[2]) = Len(whys) + 1
             /\ \A index \in 1..Len(whys), value \in Typed :
                   Len(handleWhyChange(data, index, value)[2]) = Len(whys)

\* a why was changed and a why was added, both persisted and displayed
C16_Witness ==
    /\ edits = 2
    /\ updateResult = "undefined"
    /\ writeQueue = <<>>
    /\ 1 \in DOMAIN store
    /\ store[1].d4_root_cause.five_whys = << "x", "" >>
    /\ activeReport # NoReport
    /\ activeReport.d4_root_cause.five_whys = << "x", "" >>


\* C17: the persisted fishbone always has exactly the six categories, and
\* the fishbone table of every exported file has six rows, one per category
\* in the order Manpower, Machine, Method, Material, Measurement,
\* Environment, the cause text of a row being the causes of its category
\* joined in order (empty for a category without causes).
C17_FishboneSixRows ==
    /\ [](\A id \in DOMAIN store :
             DOMAIN store[id].d4_root_cause.fishbone = CategorySet)
    /\ [][ saved' # saved =>
              LET body == saved'[Len(saved')].fishbone_body
                  fishbone == Printed.d4_root_cause.fishbone
              IN /\ Len(body) = 6
                 /\ \A i \in 1..6 :
                       /\ body[i][1] = FishboneCategories[i]
                       /\ body[i][2] = Join(fishbone[FishboneCategories[i]]) ]_vars


(***************************************************************************)
(* The Dashboard of a signed-in user whose collection holds a report of an *)
(* earlier session: reports are created, selected, edited, left and        *)
(* deleted.                                                                *)
(***************************************************************************)
InitRace ==
    LET earlier == OpenedAt("D2")
    IN /\ db = TRUE
       /\ userId = Uid
       /\ isAuthReady = TRUE
       /\ view = "dashboard"
       /\ reports = (EarlierId :> WithId(EarlierId, earlier))
       /\ activeReport = NoReport
       /\ activeReportId = NoId
       /\ isLoading = FALSE
       /\ authPhase = "ready"
       /\ modalOpen = FALSE
       /\ reportToDelete = NoId
       /\ activeDiscipline = "D1"
       /\ updateResult = "none"
       /\ listSub = "live"
       /\ listDirty = FALSE
       /\ docSubId = NoId
       /\ docSubStatus = "none"
       /\ docDirty = FALSE
       /\ writeQueue = <<>>
       /\ nextId = 1
       /\ store = (EarlierId :> earlier)
       /\ deleted = {}
       /\ edits = 0
       /\ PdfIdle
       /\ foreignReport = NoReport
       /\ foreignRendered = NoReport
       /\ foreignQueue = <<>>
       /\ rendered = activeReport

NextRace ==
    \/ handleCreateNewReport
    \/ \E id \in AllIds : handleSelectReport(id)
    \/ \E id \in AllIds : openDeleteModal(id)
    \/ closeModal
    \/ confirmDelete
    \/ handleGoToDashboard
    \/ \E d \in NavTargets : handleSelect(d)
    \/ D2Edit
    \/ StoreAccepts
    \/ StoreRejects
    \/ DocSnapshot
    \/ ListSnapshot

SpecRace == InitRace /\ [][NextRace]_vars

\* C18: a loaded activeReport is the report activeReportId names, and every
\* write an editor of the Workspace issues goes to the report whose data
\* the editor displayed.
C18_ActiveReportIsActiveId ==
    /\ [](activeReport # NoReport => activeReport.id = activeReportId)
    /\ [][ (Issued /\ Last(writeQueue').op = "update")
              => Last(writeQueue').id = activeReport.id ]_vars


\* C19: while a loaded report stays open in the Workspace, the active
\* discipline changes only in a step in which this user selects a
\* discipline, and then to the discipline selected.
C19_OwnSelectionOnly ==
    [][ ( /\ view = "workspace" /\ view' = "workspace"
          /\ activeReportId' = activeReportId
          /\ activeReport # NoReport
          /\ activeReport.id = activeReportId
          /\ activeDiscipline' # activeDiscipline )
        => ( NavIssued /\ activeDiscipline' = Last(writeQueue').value ) ]_vars


====
